---- MODULE Spec2Model ----
(***************************************************************************)
(* Model of mupen64plus-core's memory module (src/device/memory/memory.c): *)
(* the region dispatch table with its breakpoint overlay (DBG build) and   *)
(* the flat base resolver mem_base_u32.                                    *)
(*                                                                         *)
(* A 32-bit address is the pair <<hi, lo>> of its two 16-bit halves        *)
(* (value hi * 2^16 + lo), so that address >> 16 is the first component    *)
(* and no arithmetic leaves the range of the model checker's integers.     *)
(***************************************************************************)
EXTENDS Integers, Sequences, FiniteSets, TLC

\* ------------------------------------------------------------------ bounds
\* number of 64 KiB regions of the dispatch table that the model keeps
NumRegions == 2
\* longest mapping list handed to init_memory
MaxMappings == 2
\* nesting depth of handler calls after which a dispatch counts as not returning
MaxStack == 2

Regions == 0 .. (NumRegions - 1)

\* ------------------------------------------------------- program constants
BP_CHECK_READ == 1
BP_CHECK_WRITE == 2

\* m64p_types.h: flags of a breakpoint
M64P_BKP_FLAG_ENABLED == 1
M64P_BKP_FLAG_READ == 8
M64P_BKP_FLAG_WRITE == 16

\* ---------------------------------------------------------------- handlers
\* struct mem_handler { void* opaque; read32; write32 }
NullHandler == [opaque |-> "NULL", read32 |-> "NULL", write32 |-> "NULL"]

\* the handler init_memory receives as dbg_handler: RW(with_bp_checks) on r4300
DbgHandler ==
  [opaque |-> "r4300", read32 |-> "read_with_bp_checks", write32 |-> "write_with_bp_checks"]

\* the handlers device setup installs through mappings
RdramHandler == [opaque |-> "rdram", read32 |-> "read_rdram_dram", write32 |-> "write_rdram_dram"]
CartHandler == [opaque |-> "cart_rom", read32 |-> "read_cart_rom", write32 |-> "write_cart_rom"]

\* type tags (m64p_types.h: M64P_MEM_NOMEM = 0, M64P_MEM_RDRAM = 2, M64P_MEM_ROM = 15)
M64P_MEM_NOMEM == 0
M64P_MEM_RDRAM == 2
M64P_MEM_ROM == 15

\* offsets inside a region used for the addresses of the model
LowOffsets == {0, 65535}

Addresses == {<<r, lo>> : r \in Regions, lo \in LowOffsets}

\* struct mem_mapping { begin, end, type, handler }
Mappings ==
  { [begin |-> <<b, lb>>, end |-> <<e, le>>, type |-> k[1], handler |-> k[2]] :
      b \in Regions, e \in Regions,
      lb \in {32768}, le \in {32767},
      k \in {<<M64P_MEM_RDRAM, RdramHandler>>, <<M64P_MEM_ROM, CartHandler>>} }

RECURSIVE SeqsUpTo(_, _)
SeqsUpTo(S, n) ==
  IF n = 0 THEN {<<>>}
  ELSE LET shorter == SeqsUpTo(S, n - 1)
       IN shorter \cup {Append(s, x) : s \in {t \in shorter : Len(t) = n - 1}, x \in S}

MappingLists == SeqsUpTo(Mappings, MaxMappings)

\* ------------------------------------------------------------------- state
VARIABLES
  handlers,        \* mem->handlers[0x10000]: the live dispatch slots
  saved_handlers,  \* mem->saved_handlers[0x10000]: the shadow slots
  bp_checks,       \* mem->bp_checks[0x10000]: BP_CHECK_READ | BP_CHECK_WRITE
  memtype,         \* mem->memtype[0x10000]
  dbg_handler,     \* mem->dbg_handler
  real,            \* history: the handler the latest map_region received, per region
  inited,          \* init_memory has run
  u32_address,     \* mem_base_u32: the address of the latest call
  u32_mem,         \* mem_base_u32: the pointer the latest call returned
  u32_called,      \* mem_base_u32 has been called
  mem_base,        \* MemoryBase: the five buffer pointers (0 is NULL)
  heap,            \* the allocations that are live
  next_alloc,      \* the allocation the allocator hands out next
  bad_free,        \* history: free() received a pointer that is not live
  last_call,       \* history: the latest call on the MemoryBase
  init_ret,        \* history: what the latest init_mem_base returned and left
  race_pc,         \* per debugger thread: where it is in (de)activation
  race_k,          \* per debugger thread: the next field of the struct copy
  race_disp,       \* the dispatching thread: its position and what it loaded
  loop_pc,         \* apply_mem_mapping's loop: where it is
  loop_begin,      \* mapping->begin of the running call
  loop_end,        \* mapping->end of the running call
  loop_i,          \* the loop counter
  loop_calls       \* history: the regions passed to map_region, in order

table_vars == <<handlers, saved_handlers, bp_checks, memtype, dbg_handler, real, inited>>

u32_vars == <<u32_address, u32_mem, u32_called>>

alloc_vars == <<mem_base, heap, next_alloc, bad_free, last_call, init_ret>>

race_vars == <<race_pc, race_k, race_disp>>

loop_vars == <<loop_pc, loop_begin, loop_end, loop_i, loop_calls>>

vars == <<table_vars, u32_vars, alloc_vars, race_vars, loop_vars>>

\* the struct memory as one value
Mem ==
  [handlers |-> handlers, saved_handlers |-> saved_handlers, bp_checks |-> bp_checks,
   memtype |-> memtype, dbg_handler |-> dbg_handler, real |-> real]

\* ---------------------------------------------------------------- bit ops
HasBit(x, b) == (x \div b) % 2 = 1
SetBit(x, b) == IF HasBit(x, b) THEN x ELSE x + b
ClearBit(x, b) == IF HasBit(x, b) THEN x - b ELSE x
AnyBp(x) == HasBit(x, BP_CHECK_READ) \/ HasBit(x, BP_CHECK_WRITE)

\* uint16_t region = address >> 16
\* a region index taken from the low half of the address
RegionOf_low_half(address) == address[2] % NumRegions

RegionOf(address) == address[1]

\* ------------------------------------------------- breakpoint (de)activation
\* variant: captures the live slot on every activation, active or not
activate_memory_break_recapture(mem, address, bit) ==
  LET region == RegionOf(address)
      captured == [mem EXCEPT !.saved_handlers[region] = mem.handlers[region],
                              !.handlers[region] = mem.dbg_handler]
  IN [captured EXCEPT !.bp_checks[region] = SetBit(mem.bp_checks[region], bit)]

activate_memory_break(mem, address, bit) ==
  LET region == RegionOf(address)
      captured ==
        IF ~AnyBp(mem.bp_checks[region])
        THEN [mem EXCEPT !.saved_handlers[region] = mem.handlers[region],
                         !.handlers[region] = mem.dbg_handler]
        ELSE mem
  IN [captured EXCEPT !.bp_checks[region] = SetBit(mem.bp_checks[region], bit)]

activate_memory_break_read(mem, address) == activate_memory_break(mem, address, BP_CHECK_READ)

activate_memory_break_write(mem, address) == activate_memory_break(mem, address, BP_CHECK_WRITE)

deactivate_memory_break(mem, address, bit) ==
  LET region == RegionOf(address)
      cleared == [mem EXCEPT !.bp_checks[region] = ClearBit(mem.bp_checks[region], bit)]
  IN IF ~AnyBp(cleared.bp_checks[region])
     THEN [cleared EXCEPT !.handlers[region] = cleared.saved_handlers[region]]
     ELSE cleared

deactivate_memory_break_read(mem, address) == deactivate_memory_break(mem, address, BP_CHECK_READ)

deactivate_memory_break_write(mem, address) == deactivate_memory_break(mem, address, BP_CHECK_WRITE)

\* int get_memory_type(mem, address)
get_memory_type(mem, address) == mem.memtype[RegionOf(address)]

\* ------------------------------------------------------------------ mapping
\* lookup_breakpoint(region << 16, 0x10000, M64P_BKP_FLAG_ENABLED) != -1:
\* the registry is external; bps is the set of regions for which it answers yes
lookup_breakpoint(bps, region) == region \in bps

\* variant: a registry hit leaves the shadow as it was
map_region_keeps_shadow(mem, region, type, handler, bps) ==
  LET tagged == [mem EXCEPT !.memtype[region] = type, !.real[region] = handler]
  IN IF lookup_breakpoint(bps, region)
     THEN [tagged EXCEPT !.handlers[region] = mem.dbg_handler]
     ELSE [tagged EXCEPT !.handlers[region] = handler]

map_region(mem, region, type, handler, bps) ==
  LET tagged == [mem EXCEPT !.memtype[region] = type, !.real[region] = handler]
  IN IF lookup_breakpoint(bps, region)
     THEN [tagged EXCEPT !.saved_handlers[region] = handler,
                         !.handlers[region] = mem.dbg_handler]
     ELSE [tagged EXCEPT !.handlers[region] = handler]

\* variant: the loop leaves out the last region (i < end)
RECURSIVE map_loop_exclusive(_, _, _, _, _)
map_loop_exclusive(mem, i, end, mapping, bps) ==
  IF i < end
  THEN map_loop_exclusive(map_region(mem, i, mapping.type, mapping.handler, bps),
                          i + 1, end, mapping, bps)
  ELSE mem

\* for (i = begin; i <= end; ++i) map_region(mem, i, ...)   (size_t i)
RECURSIVE map_loop(_, _, _, _, _)
map_loop(mem, i, end, mapping, bps) ==
  IF i <= end
  THEN map_loop(map_region(mem, i, mapping.type, mapping.handler, bps), i + 1, end, mapping, bps)
  ELSE mem

apply_mem_mapping(mem, mapping, bps) ==
  map_loop(mem, RegionOf(mapping.begin), RegionOf(mapping.end), mapping, bps)

RECURSIVE apply_all(_, _, _, _)
apply_all(mem, mappings, m, bps) ==
  IF m <= Len(mappings)
  THEN apply_all(apply_mem_mapping(mem, mappings[m], bps), mappings, m + 1, bps)
  ELSE mem

init_memory(mem, mappings, dbg, bps) ==
  LET cleared == [mem EXCEPT !.bp_checks = [r \in Regions |-> 0], !.dbg_handler = dbg]
  IN apply_all(cleared, mappings, 1, bps)

\* ----------------------------------------------------------------- dispatch
\* what a dispatch does, as the sequence of its externally visible events
Report(pc, address, flags) ==
  [ev |-> "check_breakpoints_on_mem_access", pc |-> pc, address |-> address,
   size |-> 4, flags |-> flags]

CallRead(h, address) ==
  [ev |-> "read32", fn |-> h.read32, opaque |-> h.opaque, address |-> address]

CallWrite(h, address, value, mask) ==
  [ev |-> "write32", fn |-> h.write32, opaque |-> h.opaque, address |-> address,
   value |-> value, mask |-> mask]

\* a call through a null function pointer
NullCall == [ev |-> "null_call"]

\* the trampoline calling itself without end
StackOverflow == [ev |-> "stack_overflow"]

RECURSIVE mem_read32(_, _, _, _, _)
RECURSIVE read_with_bp_checks(_, _, _, _)

\* memory.h: handler->read32(handler->opaque, address, value)
mem_read32(mem, handler, pc, address, depth) ==
  IF handler.read32 = "NULL" THEN <<NullCall>>
  ELSE IF handler.read32 = "read_with_bp_checks"
       THEN IF depth >= MaxStack THEN <<StackOverflow>>
            ELSE read_with_bp_checks(mem, pc, address, depth + 1)
       ELSE <<CallRead(handler, address)>>

\* the trampoline consulting the bit of the other kind
read_with_bp_checks_other_kind(mem, pc, address, depth) ==
  LET region == RegionOf(address)
      hit == IF HasBit(mem.bp_checks[region], BP_CHECK_WRITE)
             THEN <<Report(pc - 4, address, M64P_BKP_FLAG_ENABLED + M64P_BKP_FLAG_READ)>>
             ELSE <<>>
  IN hit \o mem_read32(mem, mem.saved_handlers[region], pc, address, depth)

read_with_bp_checks(mem, pc, address, depth) ==
  LET region == RegionOf(address)
      hit == IF HasBit(mem.bp_checks[region], BP_CHECK_READ)
             THEN <<Report(pc - 4, address, M64P_BKP_FLAG_ENABLED + M64P_BKP_FLAG_READ)>>
             ELSE <<>>
  IN hit \o mem_read32(mem, mem.saved_handlers[region], pc, address, depth)

RECURSIVE mem_write32(_, _, _, _, _, _, _)
RECURSIVE write_with_bp_checks(_, _, _, _, _, _)

\* memory.h: handler->write32(handler->opaque, address, value, mask)
mem_write32(mem, handler, pc, address, value, mask, depth) ==
  IF handler.write32 = "NULL" THEN <<NullCall>>
  ELSE IF handler.write32 = "write_with_bp_checks"
       THEN IF depth >= MaxStack THEN <<StackOverflow>>
            ELSE write_with_bp_checks(mem, pc, address, value, mask, depth + 1)
       ELSE <<CallWrite(handler, address, value, mask)>>

write_with_bp_checks(mem, pc, address, value, mask, depth) ==
  LET region == RegionOf(address)
      hit == IF HasBit(mem.bp_checks[region], BP_CHECK_WRITE)
             THEN <<Report(pc - 4, address, M64P_BKP_FLAG_ENABLED + M64P_BKP_FLAG_WRITE)>>
             ELSE <<>>
  IN hit \o mem_write32(mem, mem.saved_handlers[region], pc, address, value, mask, depth)

\* the CPU core's access: the live handler of the address's region
DispatchRead(mem, pc, address) ==
  mem_read32(mem, mem.handlers[RegionOf(address)], pc, address, 0)

DispatchWrite(mem, pc, address, value, mask) ==
  mem_write32(mem, mem.handlers[RegionOf(address)], pc, address, value, mask, 0)

\* inputs of a dispatch
ProgramCounters == {4096}
Values == {0, 7}
Masks == {255, 65535}

\* ------------------------------------------------------ 32-bit arithmetic
\* on pairs <<hi, lo>> of 16-bit halves
Half == 65536

Lt32(a, b) == a[1] < b[1] \/ (a[1] = b[1] /\ a[2] < b[2])
Ge32(a, b) == ~Lt32(a, b)

\* a - b and a + b modulo 2^32
Sub32(a, b) ==
  LET borrow == IF a[2] < b[2] THEN 1 ELSE 0
  IN <<(a[1] - b[1] - borrow) % Half, (a[2] - b[2]) % Half>>

Add32(a, b) ==
  LET carry == (a[2] + b[2]) \div Half
  IN <<(a[1] + b[1] + carry) % Half, (a[2] + b[2]) % Half>>

RECURSIVE BitAnd16(_, _, _)
BitAnd16(x, y, bits) ==
  IF bits = 0 THEN 0
  ELSE (x % 2) * (y % 2) + 2 * BitAnd16(x \div 2, y \div 2, bits - 1)

And32(a, m) == <<BitAnd16(a[1], m[1], 16), BitAnd16(a[2], m[2], 16)>>

\* ----------------------------------------------------- flat base resolver
\* window bases and buffer sizes: memory.h, rdram.h, rsp_core.h, pif.h,
\* cart_rom.h, dd_controller.h (the platform's memory map)
MM_RDRAM_DRAM == <<0, 0>>            \* 0x00000000
MM_RDRAM_REGS == <<1008, 0>>         \* 0x03f00000
MM_RSP_MEM == <<1024, 0>>            \* 0x04000000
MM_DD_ROM == <<1536, 0>>             \* 0x06000000
MM_RDRAM_DRAM2 == <<2048, 0>>        \* 0x08000000
MM_CART_ROM == <<4096, 0>>           \* 0x10000000
MM_PIF_MEM == <<8128, 0>>            \* 0x1fc00000

RDRAM_MEMORY_SIZE == <<3056, 0>>     \* 0x0bf00000
CART_ROM_MAX_SIZE == <<1024, 0>>     \* 0x04000000
SP_MEM_SIZE == <<0, 8192>>           \* 0x2000
DD_ROM_MAX_SIZE == <<64, 0>>         \* 0x400000
PIF_ROM_SIZE == <<0, 1984>>          \* 0x7c0
PIF_RAM_SIZE == <<0, 64>>            \* 0x40

NULL == [buf |-> "NULL", off |-> <<0, 0>>]

\* a pointer into one of the five buffers of the MemoryBase
Ptr(buf, off) == [buf |-> buf, off |-> off]

\* the allocated size of each buffer (init_mem_base)
BufferSize(buf) ==
  CASE buf = "rdram" -> RDRAM_MEMORY_SIZE
    [] buf = "cartrom" -> CART_ROM_MAX_SIZE
    [] buf = "rspmem" -> SP_MEM_SIZE
    [] buf = "ddrom" -> DD_ROM_MAX_SIZE
    [] buf = "pifmem" -> Add32(PIF_ROM_SIZE, PIF_RAM_SIZE)

\* variant: the boot window test keeps 16 address bits (mask 0xffff0000)
mem_base_u32_narrow_boot(a) ==
  IF Lt32(a, MM_RDRAM_REGS)
  THEN Ptr("rdram", Sub32(a, MM_RDRAM_DRAM))
  ELSE IF Ge32(a, MM_CART_ROM)
  THEN IF And32(a, <<65535, 0>>) = MM_PIF_MEM
       THEN Ptr("pifmem", Sub32(a, MM_PIF_MEM))
       ELSE Ptr("cartrom", Sub32(a, MM_CART_ROM))
  ELSE IF And32(a, <<65024, 0>>) = MM_DD_ROM
  THEN Ptr("ddrom", Sub32(a, MM_DD_ROM))
  ELSE IF And32(a, <<65535, 57344>>) = MM_RSP_MEM
  THEN Ptr("rspmem", Sub32(a, MM_RSP_MEM))
  ELSE IF Ge32(a, MM_RDRAM_DRAM2)
  THEN Ptr("rdram", Add32(Sub32(a, MM_RDRAM_DRAM2), MM_RDRAM_REGS))
  ELSE NULL

mem_base_u32(a) ==
  IF Lt32(a, MM_RDRAM_REGS)
  THEN Ptr("rdram", Sub32(a, MM_RDRAM_DRAM))
  ELSE IF Ge32(a, MM_CART_ROM)
  THEN IF And32(a, <<65520, 0>>) = MM_PIF_MEM
       THEN Ptr("pifmem", Sub32(a, MM_PIF_MEM))
       ELSE Ptr("cartrom", Sub32(a, MM_CART_ROM))
  ELSE IF And32(a, <<65024, 0>>) = MM_DD_ROM
  THEN Ptr("ddrom", Sub32(a, MM_DD_ROM))
  ELSE IF And32(a, <<65535, 57344>>) = MM_RSP_MEM
  THEN Ptr("rspmem", Sub32(a, MM_RSP_MEM))
  ELSE IF Ge32(a, MM_RDRAM_DRAM2)
  THEN Ptr("rdram", Add32(Sub32(a, MM_RDRAM_DRAM2), MM_RDRAM_REGS))
  ELSE NULL

\* the addresses handed to mem_base_u32: every window boundary and buffer
\* end, with the addresses up to MaxDelta bytes below and above it
MaxDelta == 4

Boundaries ==
  { MM_RDRAM_DRAM, MM_RDRAM_REGS, MM_RSP_MEM, Add32(MM_RSP_MEM, SP_MEM_SIZE),
    MM_DD_ROM, Add32(MM_DD_ROM, DD_ROM_MAX_SIZE), MM_RDRAM_DRAM2,
    MM_CART_ROM, Add32(MM_CART_ROM, CART_ROM_MAX_SIZE),
    MM_PIF_MEM, Add32(MM_PIF_MEM, Add32(PIF_ROM_SIZE, PIF_RAM_SIZE)),
    <<8144, 0>>, <<32768, 0>> }

ResolveAddresses ==
  UNION { {Add32(b, <<0, d>>), Sub32(b, <<0, d>>)} : b \in Boundaries, d \in 0 .. MaxDelta }


\* ------------------------------------------------------ buffer allocation
\* most allocations the allocator hands out in one run
MaxAllocs == 10

\* the fields of MemoryBase in the order init_mem_base allocates them
Fields == <<"rdram", "cartrom", "rspmem", "ddrom", "pifmem">>

\* init_mem_base; the allocation of field number failAt fails (0: none does).
\* Gives the MemoryBase, the heap, the allocator's next allocation, the
\* return value and the allocations the call made.
RECURSIVE init_mem_base_from(_, _, _, _, _, _)
init_mem_base_from(k, mb, hp, next, made, failAt) ==
  IF k > Len(Fields)
  THEN [mem_base |-> mb, heap |-> hp, next |-> next, ret |-> 0, made |-> made]
  ELSE IF k = failAt
  THEN [mem_base |-> [mb EXCEPT ![Fields[k]] = 0], heap |-> hp, next |-> next,
        ret |-> 1, made |-> made]
  ELSE init_mem_base_from(k + 1, [mb EXCEPT ![Fields[k]] = next], hp \cup {next},
                          next + 1, made \cup {next}, failAt)

init_mem_base(mb, hp, next, failAt) == init_mem_base_from(1, mb, hp, next, {}, failAt)

\* free(ptr): NULL is ignored, a live allocation is released, anything else
\* is a free of memory that is not allocated
free(st, ptr) ==
  IF ptr = 0 THEN st
  ELSE IF ptr \in st.heap THEN [st EXCEPT !.heap = st.heap \ {ptr}]
  ELSE [st EXCEPT !.bad = TRUE]

RECURSIVE release_mem_base_from(_, _, _)
release_mem_base_from(k, mb, st) ==
  IF k > Len(Fields) THEN st
  ELSE release_mem_base_from(k + 1, mb, free(st, mb[Fields[k]]))

release_mem_base(mb, hp) == release_mem_base_from(1, mb, [heap |-> hp, bad |-> FALSE])

\* ------------------------------------------------------- unlocked threads
\* The functions take no lock: a debugger thread per breakpoint kind and the
\* dispatching thread interleave at the loads and stores of one region.
RaceRegion == 0

Kinds == {BP_CHECK_READ, BP_CHECK_WRITE}

\* struct mem_handler is copied member by member
FieldNames == <<"opaque", "read32", "write32">>

NoDispatch == [pc |-> "idle", read32 |-> "none", opaque |-> "none",
               s_read32 |-> "none", s_opaque |-> "none"]

\* ------------------------------------------------ the mapping loop, alone
\* apply_mem_mapping over the whole 16-bit index range
\* most regions one mapping of this part spans beyond its first
MaxSpan == 2

\* region indices at both ends of the 16-bit range
EdgeIndices == (0 .. MaxSpan) \cup ((Half - 1 - MaxSpan) .. (Half - 1))

EdgeAddresses == {<<hi, lo>> : hi \in EdgeIndices, lo \in LowOffsets}

\* ++i on a 16-bit counter
loop_next_u16(i) == (i + 1) % Half

\* ++i on a size_t, which is wider than 16 bits
loop_next(i) == i + 1

\* ------------------------------------------------------------------ actions
\* struct memory lives in the global g_dev: static storage, all zero
TableInit ==
  /\ handlers = [r \in Regions |-> NullHandler]
  /\ saved_handlers = [r \in Regions |-> NullHandler]
  /\ bp_checks = [r \in Regions |-> 0]
  /\ memtype = [r \in Regions |-> M64P_MEM_NOMEM]
  /\ dbg_handler = NullHandler
  /\ real = [r \in Regions |-> NullHandler]
  /\ inited = FALSE

U32Init ==
  /\ u32_address = <<0, 0>>
  /\ u32_mem = NULL
  /\ u32_called = FALSE

\* g_mem_base is a global: static storage, every pointer NULL
AllocInit ==
  /\ mem_base = [f \in {Fields[k] : k \in DOMAIN Fields} |-> 0]
  /\ heap = {}
  /\ next_alloc = 1
  /\ bad_free = FALSE
  /\ last_call = "none"
  /\ init_ret = [ret |-> 0, failed |-> 0, outstanding |-> {}]

\* no thread is inside a call
RaceInit ==
  /\ race_pc = [t \in Kinds |-> "idle"]
  /\ race_k = [t \in Kinds |-> 1]
  /\ race_disp = NoDispatch

\* no call of apply_mem_mapping is running
LoopInit ==
  /\ loop_pc = "idle"
  /\ loop_begin = <<0, 0>>
  /\ loop_end = <<0, 0>>
  /\ loop_i = 0
  /\ loop_calls = <<>>

Init ==
  /\ TableInit
  /\ U32Init
  /\ AllocInit
  /\ RaceInit
  /\ LoopInit

Become(m) ==
  /\ handlers' = m.handlers
  /\ saved_handlers' = m.saved_handlers
  /\ bp_checks' = m.bp_checks
  /\ memtype' = m.memtype
  /\ dbg_handler' = m.dbg_handler
  /\ real' = m.real
  /\ UNCHANGED <<u32_vars, alloc_vars, race_vars, loop_vars>>

InitMemory ==
  \E mappings \in MappingLists, bps \in SUBSET Regions :
    /\ Become(init_memory(Mem, mappings, DbgHandler, bps))
    /\ inited' = TRUE

ApplyMemMapping ==
  \E mapping \in Mappings, bps \in SUBSET Regions :
    /\ inited
    /\ Become(apply_mem_mapping(Mem, mapping, bps))
    /\ UNCHANGED inited

ActivateMemoryBreakRead ==
  \E address \in Addresses :
    /\ inited
    /\ Become(activate_memory_break_read(Mem, address))
    /\ UNCHANGED inited

DeactivateMemoryBreakRead ==
  \E address \in Addresses :
    /\ inited
    /\ Become(deactivate_memory_break_read(Mem, address))
    /\ UNCHANGED inited

ActivateMemoryBreakWrite ==
  \E address \in Addresses :
    /\ inited
    /\ Become(activate_memory_break_write(Mem, address))
    /\ UNCHANGED inited

DeactivateMemoryBreakWrite ==
  \E address \in Addresses :
    /\ inited
    /\ Become(deactivate_memory_break_write(Mem, address))
    /\ UNCHANGED inited

Next ==
  \/ InitMemory
  \/ ApplyMemMapping
  \/ ActivateMemoryBreakRead
  \/ DeactivateMemoryBreakRead
  \/ ActivateMemoryBreakWrite
  \/ DeactivateMemoryBreakWrite

Spec == Init /\ [][Next]_vars

\* the flat base resolver on its own
MemBaseU32 ==
  \E a \in ResolveAddresses :
    /\ u32_address' = a
    /\ u32_mem' = mem_base_u32(a)
    /\ u32_called' = TRUE
    /\ UNCHANGED <<table_vars, alloc_vars, race_vars, loop_vars>>

BaseNext == MemBaseU32

BaseSpec == Init /\ [][BaseNext]_vars

InitMemBase ==
  \E failAt \in 0 .. Len(Fields) :
    /\ ~bad_free
    /\ next_alloc + Len(Fields) <= MaxAllocs + 1
    /\ LET r == init_mem_base(mem_base, heap, next_alloc, failAt)
       IN /\ mem_base' = r.mem_base
          /\ heap' = r.heap
          /\ next_alloc' = r.next
          /\ init_ret' = [ret |-> r.ret, failed |-> failAt,
                          outstanding |-> r.made \cap r.heap]
    /\ last_call' = "init_mem_base"
    /\ UNCHANGED <<bad_free, table_vars, u32_vars, race_vars, loop_vars>>

\* the owner releases after an init_mem_base, whatever that returned
ReleaseMemBase ==
  /\ ~bad_free
  /\ last_call = "init_mem_base"
  /\ LET r == release_mem_base(mem_base, heap)
     IN /\ heap' = r.heap
        /\ bad_free' = r.bad
  /\ last_call' = "release_mem_base"
  /\ UNCHANGED <<mem_base, next_alloc, init_ret, table_vars, u32_vars, race_vars, loop_vars>>

AllocNext == InitMemBase \/ ReleaseMemBase

AllocSpec == Init /\ [][AllocNext]_vars

\* the table is initialised before any thread runs; the registry is empty
RaceBoot ==
  \E mapping \in Mappings :
    /\ ~inited
    /\ RaceRegion \in (mapping.begin[1]) .. (mapping.end[1])
    /\ handlers' = init_memory(Mem, <<mapping>>, DbgHandler, {}).handlers
    /\ saved_handlers' = init_memory(Mem, <<mapping>>, DbgHandler, {}).saved_handlers
    /\ bp_checks' = init_memory(Mem, <<mapping>>, DbgHandler, {}).bp_checks
    /\ memtype' = init_memory(Mem, <<mapping>>, DbgHandler, {}).memtype
    /\ dbg_handler' = init_memory(Mem, <<mapping>>, DbgHandler, {}).dbg_handler
    /\ real' = init_memory(Mem, <<mapping>>, DbgHandler, {}).real
    /\ inited' = TRUE
    /\ UNCHANGED <<u32_vars, alloc_vars, race_vars, loop_vars>>

RaceFrame == UNCHANGED <<memtype, dbg_handler, real, inited, u32_vars, alloc_vars, loop_vars>>

\* activate_memory_break_*: the test of the mask
BreakCheckMask(t) ==
  /\ inited
  /\ race_pc[t] = "idle"
  /\ race_pc' = [race_pc EXCEPT ![t] = IF AnyBp(bp_checks[RaceRegion])
                                       THEN "set_bit" ELSE "save"]
  /\ race_k' = [race_k EXCEPT ![t] = 1]
  /\ UNCHANGED <<handlers, saved_handlers, bp_checks, race_disp>>
  /\ RaceFrame

\* *saved_handler = *handler, one member
BreakSaveField(t) ==
  /\ race_pc[t] = "save"
  /\ saved_handlers' = [saved_handlers EXCEPT ![RaceRegion][FieldNames[race_k[t]]] =
                          handlers[RaceRegion][FieldNames[race_k[t]]]]
  /\ IF race_k[t] = Len(FieldNames)
     THEN /\ race_pc' = [race_pc EXCEPT ![t] = "swap"]
          /\ race_k' = [race_k EXCEPT ![t] = 1]
     ELSE /\ race_k' = [race_k EXCEPT ![t] = race_k[t] + 1]
          /\ UNCHANGED race_pc
  /\ UNCHANGED <<handlers, bp_checks, race_disp>>
  /\ RaceFrame

\* *handler = *dbg_handler, one member
BreakSwapField(t) ==
  /\ race_pc[t] = "swap"
  /\ handlers' = [handlers EXCEPT ![RaceRegion][FieldNames[race_k[t]]] =
                    dbg_handler[FieldNames[race_k[t]]]]
  /\ IF race_k[t] = Len(FieldNames)
     THEN /\ race_pc' = [race_pc EXCEPT ![t] = "set_bit"]
          /\ race_k' = [race_k EXCEPT ![t] = 1]
     ELSE /\ race_k' = [race_k EXCEPT ![t] = race_k[t] + 1]
          /\ UNCHANGED race_pc
  /\ UNCHANGED <<saved_handlers, bp_checks, race_disp>>
  /\ RaceFrame

\* *bp_check |= kind
BreakSetBit(t) ==
  /\ race_pc[t] = "set_bit"
  /\ bp_checks' = [bp_checks EXCEPT ![RaceRegion] = SetBit(@, t)]
  /\ race_pc' = [race_pc EXCEPT ![t] = "active"]
  /\ UNCHANGED <<handlers, saved_handlers, race_k, race_disp>>
  /\ RaceFrame

\* deactivate_memory_break_*: *bp_check &= ~kind and the test of the mask
BreakClearBit(t) ==
  /\ race_pc[t] = "active"
  /\ bp_checks' = [bp_checks EXCEPT ![RaceRegion] = ClearBit(@, t)]
  /\ race_pc' = [race_pc EXCEPT ![t] = IF AnyBp(ClearBit(bp_checks[RaceRegion], t))
                                       THEN "idle" ELSE "restore"]
  /\ race_k' = [race_k EXCEPT ![t] = 1]
  /\ UNCHANGED <<handlers, saved_handlers, race_disp>>
  /\ RaceFrame

\* *handler = *saved_handler, one member
BreakRestoreField(t) ==
  /\ race_pc[t] = "restore"
  /\ handlers' = [handlers EXCEPT ![RaceRegion][FieldNames[race_k[t]]] =
                    saved_handlers[RaceRegion][FieldNames[race_k[t]]]]
  /\ IF race_k[t] = Len(FieldNames)
     THEN /\ race_pc' = [race_pc EXCEPT ![t] = "idle"]
          /\ race_k' = [race_k EXCEPT ![t] = 1]
     ELSE /\ race_k' = [race_k EXCEPT ![t] = race_k[t] + 1]
          /\ UNCHANGED race_pc
  /\ UNCHANGED <<saved_handlers, bp_checks, race_disp>>
  /\ RaceFrame

\* mem_read32 on the live slot: handler->read32
DispatchLoadEntry ==
  /\ inited
  /\ race_disp.pc = "idle"
  /\ race_disp' = [NoDispatch EXCEPT !.pc = "entry",
                                      !.read32 = handlers[RaceRegion].read32]
  /\ UNCHANGED <<handlers, saved_handlers, bp_checks, race_pc, race_k>>
  /\ RaceFrame

\* mem_read32 on the live slot: handler->opaque, then the call
DispatchLoadOpaque ==
  /\ race_disp.pc = "entry"
  /\ race_disp' = [race_disp EXCEPT
                     !.pc = IF race_disp.read32 = DbgHandler.read32
                            THEN "trampoline" ELSE "done",
                     !.opaque = handlers[RaceRegion].opaque]
  /\ UNCHANGED <<handlers, saved_handlers, bp_checks, race_pc, race_k>>
  /\ RaceFrame

\* read_with_bp_checks: mem_read32 on the shadow slot
DispatchLoadShadow ==
  /\ race_disp.pc = "trampoline"
  /\ race_disp' = [race_disp EXCEPT !.pc = "done",
                                     !.s_read32 = saved_handlers[RaceRegion].read32,
                                     !.s_opaque = saved_handlers[RaceRegion].opaque]
  /\ UNCHANGED <<handlers, saved_handlers, bp_checks, race_pc, race_k>>
  /\ RaceFrame

DispatchReturn ==
  /\ race_disp.pc = "done"
  /\ race_disp' = NoDispatch
  /\ UNCHANGED <<handlers, saved_handlers, bp_checks, race_pc, race_k>>
  /\ RaceFrame

RaceNext ==
  \/ RaceBoot
  \/ \E t \in Kinds : BreakCheckMask(t)
  \/ \E t \in Kinds : BreakSaveField(t)
  \/ \E t \in Kinds : BreakSwapField(t)
  \/ \E t \in Kinds : BreakSetBit(t)
  \/ \E t \in Kinds : BreakClearBit(t)
  \/ \E t \in Kinds : BreakRestoreField(t)
  \/ DispatchLoadEntry
  \/ DispatchLoadOpaque
  \/ DispatchLoadShadow
  \/ DispatchReturn

RaceSpec == Init /\ [][RaceNext]_vars

LoopFrame == UNCHANGED <<table_vars, u32_vars, alloc_vars, race_vars>>

\* uint16_t begin = mapping->begin >> 16, end = mapping->end >> 16; i = begin
LoopEnter ==
  \E begin \in EdgeAddresses, end \in EdgeAddresses :
    /\ loop_pc = "idle"
    /\ RegionOf(end) - RegionOf(begin) <= MaxSpan
    /\ loop_pc' = "loop"
    /\ loop_begin' = begin
    /\ loop_end' = end
    /\ loop_i' = RegionOf(begin)
    /\ loop_calls' = <<>>
    /\ LoopFrame

\* i <= end: map_region(mem, i, ...) with i converted to uint16_t; ++i
LoopPass ==
  /\ loop_pc = "loop"
  /\ loop_i <= RegionOf(loop_end)
  /\ Len(loop_calls) < MaxSpan + 2
  /\ loop_calls' = Append(loop_calls, loop_i % Half)
  /\ loop_i' = loop_next(loop_i)
  /\ UNCHANGED <<loop_pc, loop_begin, loop_end>>
  /\ LoopFrame

\* i > end: the function returns
LoopExit ==
  /\ loop_pc = "loop"
  /\ ~(loop_i <= RegionOf(loop_end))
  /\ loop_pc' = "returned"
  /\ UNCHANGED <<loop_begin, loop_end, loop_i, loop_calls>>
  /\ LoopFrame

LoopIdle ==
  /\ loop_pc = "returned"
  /\ loop_pc' = "idle"
  /\ UNCHANGED <<loop_begin, loop_end, loop_i, loop_calls>>
  /\ LoopFrame

LoopNext == LoopEnter \/ LoopPass \/ LoopExit \/ LoopIdle

LoopSpec == Init /\ [][LoopNext]_vars

\* ------------------------------------------------------------------- claims
\* the regions a mapping covers: begin >> 16 .. end >> 16
Covered(mapping) == {r \in Regions : RegionOf(mapping.begin) <= r /\ r <= RegionOf(mapping.end)}

\* a handler both of whose entry points can be called
Callable(h) == h.read32 # "NULL" /\ h.write32 # "NULL"

\* C1: in every state after init_memory, a region whose bp_checks mask is
\* nonzero has the shared debug handler in its live slot and the handler of
\* its latest mapping (the pre-interception handler) in its shadow slot.
C1_ActiveMaskMeansIntercepted ==
  inited =>
    \A r \in Regions :
      bp_checks[r] # 0 =>
        /\ handlers[r] = dbg_handler
        /\ saved_handlers[r] = real[r]

\* C2: in every state after init_memory, a region whose bp_checks mask is zero
\* holds the handler of its latest mapping in its live slot, never the shared
\* debug handler.
C2_ZeroMaskMeansDirect ==
  inited =>
    \A r \in Regions :
      bp_checks[r] = 0 =>
        /\ handlers[r] = real[r]
        /\ handlers[r] # dbg_handler

\* C3: deactivating a kind whose bit is clear changes nothing: live slots,
\* shadow slots and masks are the same after the call.
C3_DeactivateInactiveIsNoOp ==
  inited =>
    \A address \in Addresses :
      /\ ~HasBit(bp_checks[RegionOf(address)], BP_CHECK_READ) =>
           deactivate_memory_break_read(Mem, address) = Mem
      /\ ~HasBit(bp_checks[RegionOf(address)], BP_CHECK_WRITE) =>
           deactivate_memory_break_write(Mem, address) = Mem

\* C4: installing a mapping, then activating and deactivating one kind on a
\* region the mapping covers, leaves the mapping's handler in the live slot.
C4_RoundTrip ==
  inited =>
    \A mapping \in Mappings, bps \in SUBSET Regions, address \in Addresses :
      RegionOf(address) \in Covered(mapping) =>
        LET installed == apply_mem_mapping(Mem, mapping, bps)
            r == RegionOf(address)
        IN /\ deactivate_memory_break_read(
                activate_memory_break_read(installed, address), address).handlers[r]
                = mapping.handler
           /\ deactivate_memory_break_write(
                activate_memory_break_write(installed, address), address).handlers[r]
                = mapping.handler

\* C5: apply_mem_mapping over a region whose mask is nonzero keeps the debug
\* handler in the live slot, puts the new handler in the shadow slot, leaves
\* the mask alone, and an access of an active kind is still reported.
C5_MappingKeepsActiveBreakpoint ==
  inited =>
    \A mapping \in Mappings, bps \in SUBSET Regions, address \in Addresses :
      LET r == RegionOf(address)
          after == apply_mem_mapping(Mem, mapping, bps)
      IN (r \in Covered(mapping) /\ bp_checks[r] # 0) =>
           /\ after.handlers[r] = dbg_handler
           /\ after.saved_handlers[r] = mapping.handler
           /\ after.bp_checks[r] = bp_checks[r]
           /\ HasBit(bp_checks[r], BP_CHECK_READ) =>
                \E i \in DOMAIN DispatchRead(after, 4096, address) :
                  DispatchRead(after, 4096, address)[i].ev = "check_breakpoints_on_mem_access"
           /\ HasBit(bp_checks[r], BP_CHECK_WRITE) =>
                \E i \in DOMAIN DispatchWrite(after, 4096, address, 7, 255) :
                  DispatchWrite(after, 4096, address, 7, 255)[i].ev
                    = "check_breakpoints_on_mem_access"

\* C6: activating a kind twice in a row gives the state that activating it
\* once gives: masks, shadow slots and live slots of every region agree.
C6_ActivationIdempotent ==
  \A address \in Addresses :
    /\ activate_memory_break_read(activate_memory_break_read(Mem, address), address)
         = activate_memory_break_read(Mem, address)
    /\ activate_memory_break_write(activate_memory_break_write(Mem, address), address)
         = activate_memory_break_write(Mem, address)

\* a second activation met a region whose live slot already is the debug
\* handler with a real handler in the shadow
C6_Witness ==
  \E r \in Regions :
    /\ inited
    /\ bp_checks[r] = BP_CHECK_READ
    /\ handlers[r] = DbgHandler
    /\ saved_handlers[r] = RdramHandler

\* C7: in a mapped region where only one kind is active, a dispatch of the
\* other kind reports nothing and is one call of the region's real handler
\* with the address, value and mask of the dispatch.
C7_ReadWriteIndependent ==
  inited =>
    \A address \in Addresses, pc \in ProgramCounters, value \in Values, mask \in Masks :
      LET r == RegionOf(address) IN
      real[r] # NullHandler =>
        /\ bp_checks[r] = BP_CHECK_READ =>
             DispatchWrite(Mem, pc, address, value, mask)
               = <<CallWrite(real[r], address, value, mask)>>
        /\ bp_checks[r] = BP_CHECK_WRITE =>
             DispatchRead(Mem, pc, address) = <<CallRead(real[r], address)>>

\* C8: after apply_mem_mapping every covered region dispatches to the
\* mapping's handler, directly or through the trampoline, and the live slot,
\* shadow slot and type tag of every other region are as before.
C8_MappingCoversExactlyItsRange ==
  inited =>
    \A mapping \in Mappings, bps \in SUBSET Regions, address \in Addresses :
      LET r == RegionOf(address)
          after == apply_mem_mapping(Mem, mapping, bps)
          rd == DispatchRead(after, 4096, address)
          wr == DispatchWrite(after, 4096, address, 7, 255)
      IN IF r \in Covered(mapping)
         THEN /\ rd[Len(rd)] = CallRead(mapping.handler, address)
              /\ wr[Len(wr)] = CallWrite(mapping.handler, address, 7, 255)
         ELSE /\ after.handlers[r] = handlers[r]
              /\ after.saved_handlers[r] = saved_handlers[r]
              /\ after.memtype[r] = memtype[r]

\* a mapping of one region was installed next to a region that kept another
\* mapping's handler and tag
C8_Witness ==
  /\ inited
  /\ handlers[0] = RdramHandler /\ memtype[0] = M64P_MEM_RDRAM
  /\ handlers[1] = CartHandler /\ memtype[1] = M64P_MEM_ROM

\* C9: after init_memory every dispatch slot holds a handler that can be
\* called.
C9_EverySlotCallable ==
  inited => \A r \in Regions : Callable(handlers[r])

\* C10: the pointer mem_base_u32 returned is NULL or lies inside the buffer
\* it points into: its offset from the buffer's base is below the buffer's
\* allocated size.
C10_PointerInsideBuffer ==
  u32_mem # NULL => Lt32(u32_mem.off, BufferSize(u32_mem.buf))

\* the three aliased windows as byte ranges
InBootWindow(a) == Ge32(a, <<8128, 0>>) /\ Lt32(a, <<8144, 0>>)
InAuxRomWindow(a) == Ge32(a, <<1536, 0>>) /\ Lt32(a, <<2048, 0>>)
InScratchWindow(a) == Ge32(a, <<1024, 0>>) /\ Lt32(a, <<1024, 8192>>)

\* the buffer and offset the documented order gives, first match first
DocumentedResolve(a) ==
  IF Lt32(a, MM_RDRAM_REGS) THEN Ptr("rdram", a)
  ELSE IF Ge32(a, MM_CART_ROM)
       THEN IF InBootWindow(a) THEN Ptr("pifmem", Sub32(a, MM_PIF_MEM))
            ELSE Ptr("cartrom", Sub32(a, MM_CART_ROM))
  ELSE IF InAuxRomWindow(a) THEN Ptr("ddrom", Sub32(a, MM_DD_ROM))
  ELSE IF InScratchWindow(a) THEN Ptr("rspmem", Sub32(a, MM_RSP_MEM))
  ELSE IF Ge32(a, MM_RDRAM_DRAM2)
       THEN Ptr("rdram", Add32(MM_RDRAM_REGS, Sub32(a, MM_RDRAM_DRAM2)))
  ELSE NULL

\* C11: the pointer mem_base_u32 returned is the one the documented order
\* gives for the address (first matching rule); the address lies in at most
\* one of the three aliased windows, and an address inside an aliased window
\* does not resolve to the cartridge-ROM buffer.
C11_DocumentedOrder ==
  u32_called =>
    /\ u32_mem = DocumentedResolve(u32_address)
    /\ ~(InBootWindow(u32_address) /\ InAuxRomWindow(u32_address))
    /\ ~(InBootWindow(u32_address) /\ InScratchWindow(u32_address))
    /\ ~(InAuxRomWindow(u32_address) /\ InScratchWindow(u32_address))
    /\ (InBootWindow(u32_address) \/ InAuxRomWindow(u32_address)
          \/ InScratchWindow(u32_address)) => u32_mem.buf # "cartrom"

\* the last byte of the boot window was resolved, into the boot buffer
C11_Witness ==
  /\ u32_called
  /\ u32_address = <<8143, 65535>>
  /\ u32_mem = Ptr("pifmem", <<15, 65535>>)

\* C12: when init_mem_base returns its error, no allocation the call made is
\* still outstanding.
C12_FailedInitReleasesItsBuffers ==
  init_ret.ret = 1 => init_ret.outstanding = {}

\* C13: free() never receives a pointer other than NULL or a live allocation.
C13_NoBadFree == ~bad_free

\* C14: a dispatch that runs while breakpoints are (de)activated on its
\* region sees either the real handler in the live slot, or the whole debug
\* handler in the live slot and the real handler in the shadow.
C14_DispatchSeesConsistentState ==
  race_disp.pc = "done" =>
    \/ /\ race_disp.read32 = real[RaceRegion].read32
       /\ race_disp.opaque = real[RaceRegion].opaque
    \/ /\ race_disp.read32 = DbgHandler.read32
       /\ race_disp.opaque = DbgHandler.opaque
       /\ race_disp.s_read32 = real[RaceRegion].read32
       /\ race_disp.s_opaque = real[RaceRegion].opaque

\* what follows the report, if any, in one pass through a trampoline whose
\* shadow has entry point fn: the one call of that entry point
ForwardedOnce(rest, fn, call) ==
  IF fn = "NULL" THEN rest = <<NullCall>>
  ELSE IF fn \in {"read_with_bp_checks", "write_with_bp_checks"}
  THEN /\ rest # <<>>
       /\ rest[Len(rest)] = StackOverflow
       /\ \A k \in 1 .. (Len(rest) - 1) : rest[k].ev = "check_breakpoints_on_mem_access"
  ELSE rest = <<call>>

\* C15: a dispatch that reaches the debug handler reports to the breakpoint
\* collaborator (pc - 4, the address, width 4, ENABLED|READ resp.
\* ENABLED|WRITE) exactly when the bit of its kind is set in the region's
\* mask, reports before the access, and forwards the access once to the
\* region's shadow handler with address, value and mask as given.
C15_TrampolineReportsThenForwards ==
  \A address \in Addresses, pc \in ProgramCounters, value \in Values, mask \in Masks :
    handlers[address[1]] = DbgHandler =>
      LET sh == saved_handlers[address[1]]
          rd == DispatchRead(Mem, pc, address)
          wr == DispatchWrite(Mem, pc, address, value, mask)
          nr == IF bp_checks[address[1]] \in {1, 3} THEN 1 ELSE 0
          nw == IF bp_checks[address[1]] \in {2, 3} THEN 1 ELSE 0
      IN /\ Len(rd) > nr
         /\ nr = 1 => rd[1] = [ev |-> "check_breakpoints_on_mem_access", pc |-> pc - 4,
                               address |-> address, size |-> 4, flags |-> 9]
         /\ nr = 0 /\ sh.read32 # "read_with_bp_checks"
              => rd[1].ev # "check_breakpoints_on_mem_access"
         /\ ForwardedOnce(SubSeq(rd, nr + 1, Len(rd)), sh.read32,
                          [ev |-> "read32", fn |-> sh.read32, opaque |-> sh.opaque,
                           address |-> address])
         /\ Len(wr) > nw
         /\ nw = 1 => wr[1] = [ev |-> "check_breakpoints_on_mem_access", pc |-> pc - 4,
                               address |-> address, size |-> 4, flags |-> 17]
         /\ nw = 0 /\ sh.write32 # "write_with_bp_checks"
              => wr[1].ev # "check_breakpoints_on_mem_access"
         /\ ForwardedOnce(SubSeq(wr, nw + 1, Len(wr)), sh.write32,
                          [ev |-> "write32", fn |-> sh.write32, opaque |-> sh.opaque,
                           address |-> address, value |-> value, mask |-> mask])

C15_Witness ==
  \E address \in Addresses :
    /\ handlers[address[1]] = DbgHandler
    /\ bp_checks[address[1]] = BP_CHECK_READ
    /\ saved_handlers[address[1]] = RdramHandler
    /\ Len(DispatchRead(Mem, 4096, address)) = 2
    /\ Len(DispatchWrite(Mem, 4096, address, 7, 255)) = 1

\* C16: in a region with both kinds active, deactivating one kind clears
\* only its bit, keeps the shadow and leaves the debug handler in the live
\* slot; deactivating the other kind then makes the mask zero and copies the
\* shadow into the live slot; in either order.
C16_RestoreOnlyOnLastDeactivation ==
  \A address \in Addresses, first \in {BP_CHECK_READ, BP_CHECK_WRITE} :
    bp_checks[address[1]] = 3 =>
      LET r == address[1]
          m1 == deactivate_memory_break(Mem, address, first)
          m2 == deactivate_memory_break(m1, address, 3 - first)
      IN /\ m1.bp_checks[r] = 3 - first
         /\ m1.saved_handlers[r] = saved_handlers[r]
         /\ m1.handlers[r] = DbgHandler
         /\ m2.bp_checks[r] = 0
         /\ m2.handlers[r] = saved_handlers[r]

\* the four breakpoint operations, by name
BreakOp(op, mem, address) ==
  CASE op = "activate_read" -> activate_memory_break_read(mem, address)
    [] op = "activate_write" -> activate_memory_break_write(mem, address)
    [] op = "deactivate_read" -> deactivate_memory_break_read(mem, address)
    [] op = "deactivate_write" -> deactivate_memory_break_write(mem, address)

BreakOps == {"activate_read", "activate_write", "deactivate_read", "deactivate_write"}

\* C17: activating or deactivating a breakpoint at an address changes the
\* live handler, shadow and mask of the address's 64 KiB region only, and
\* the same for every address of the region; the other regions, every type
\* tag and the stored debug handler stay as they were.
C17_BreakpointOpsAreLocal ==
  inited =>
    \A address \in Addresses, op \in BreakOps :
      LET m == BreakOp(op, Mem, address)
      IN /\ \A r \in Regions \ {address[1]} :
              /\ m.handlers[r] = handlers[r]
              /\ m.saved_handlers[r] = saved_handlers[r]
              /\ m.bp_checks[r] = bp_checks[r]
         /\ m.memtype = memtype
         /\ \A other \in Addresses : get_memory_type(m, other) = memtype[other[1]]
         /\ m.dbg_handler = dbg_handler
         /\ \A other \in Addresses :
              other[1] = address[1] => BreakOp(op, Mem, other) = m

C17_Witness ==
  /\ inited
  /\ bp_checks[0] = BP_CHECK_READ
  /\ handlers[0] = DbgHandler
  /\ bp_checks[1] = 0
  /\ handlers[1] = CartHandler
  /\ memtype[0] = M64P_MEM_RDRAM

\* C18: the shadow of a region whose live slot is the debug handler is never
\* the debug handler, so a dispatch passes through the trampoline at most
\* once and ends.
C18_TrampolineNeverForwardsToItself ==
  inited =>
    \A address \in Addresses, pc \in ProgramCounters :
      /\ handlers[address[1]] = dbg_handler => saved_handlers[address[1]] # dbg_handler
      /\ \A k \in DOMAIN DispatchRead(Mem, pc, address) :
           DispatchRead(Mem, pc, address)[k] # StackOverflow
      /\ \A k \in DOMAIN DispatchWrite(Mem, pc, address, 0, 255) :
           DispatchWrite(Mem, pc, address, 0, 255)[k] # StackOverflow

\* every order in which the active kinds of a mask can be deactivated
DeactivationOrders(mask) ==
  CASE mask = 1 -> {<<BP_CHECK_READ>>}
    [] mask = 2 -> {<<BP_CHECK_WRITE>>}
    [] mask = 3 -> {<<BP_CHECK_READ, BP_CHECK_WRITE>>, <<BP_CHECK_WRITE, BP_CHECK_READ>>}
    [] OTHER -> {<<>>}

RECURSIVE DeactivateAll(_, _, _)
DeactivateAll(mem, address, order) ==
  IF order = <<>> THEN mem
  ELSE DeactivateAll(deactivate_memory_break(mem, address, Head(order)), address, Tail(order))

\* C19: when a mapping with handler h2 is applied over a region whose
\* interception is active and the registry reports a breakpoint there, the
\* dispatches on the region are forwarded to h2 while interception lasts, and
\* once every active kind is deactivated the live slot holds h2.
C19_RemapUnderBreakpointTakesEffect ==
  \A address \in Addresses, mapping \in Mappings, bps \in SUBSET Regions,
     pc \in ProgramCounters :
    (/\ inited
     /\ bp_checks[address[1]] # 0
     /\ handlers[address[1]] = DbgHandler
     /\ address[1] \in Covered(mapping)
     /\ address[1] \in bps) =>
      LET r == address[1]
          m == apply_mem_mapping(Mem, mapping, bps)
          rd == DispatchRead(m, pc, address)
          wr == DispatchWrite(m, pc, address, 7, 255)
      IN /\ m.bp_checks[r] = bp_checks[r]
         /\ rd[Len(rd)] = [ev |-> "read32", fn |-> mapping.handler.read32,
                           opaque |-> mapping.handler.opaque, address |-> address]
         /\ wr[Len(wr)] = [ev |-> "write32", fn |-> mapping.handler.write32,
                           opaque |-> mapping.handler.opaque, address |-> address,
                           value |-> 7, mask |-> 255]
         /\ \A k \in 1 .. (Len(rd) - 1) : rd[k].ev = "check_breakpoints_on_mem_access"
         /\ \A order \in DeactivationOrders(bp_checks[r]) :
              /\ DeactivateAll(m, address, order).handlers[r] = mapping.handler
              /\ DeactivateAll(m, address, order).bp_checks[r] = 0

C19_Witness ==
  \E mapping \in Mappings :
    /\ inited
    /\ bp_checks[0] = 3
    /\ handlers[0] = DbgHandler
    /\ saved_handlers[0] = RdramHandler
    /\ 0 \in Covered(mapping)
    /\ mapping.handler = CartHandler
    /\ DeactivateAll(apply_mem_mapping(Mem, mapping, {0}), <<0, 0>>,
                     <<BP_CHECK_READ, BP_CHECK_WRITE>>).handlers[0] = CartHandler

\* C20: apply_mem_mapping calls map_region once for each region index from
\* begin >> 16 to end >> 16, in ascending order, and then returns: it makes
\* at most end - begin + 1 passes, never goes from region 0xFFFF on to
\* region 0, and touches no region when begin >> 16 is above end >> 16.
C20_LoopVisitsRangeOnce ==
  LET b == loop_begin[1]
      e == loop_end[1]
  IN /\ \A k \in DOMAIN loop_calls : loop_calls[k] = b + k - 1 /\ loop_calls[k] <= e
     /\ loop_pc = "loop" => loop_i = b + Len(loop_calls)
     /\ loop_pc = "returned" =>
          /\ Len(loop_calls) = IF b > e THEN 0 ELSE e - b + 1
          /\ \A r \in b .. e : \E k \in DOMAIN loop_calls : loop_calls[k] = r
     /\ loop_pc = "loop" /\ b <= e /\ Len(loop_calls) = e - b + 1 => loop_i > e

C20_Witness ==
  /\ loop_pc = "returned"
  /\ loop_begin[1] = 65534
  /\ loop_end[1] = 65535
  /\ loop_calls = <<65534, 65535>>

====
